---- MODULE Spec2Model ----
(***************************************************************************)
(* History Synchronizer of benchmark-action (scripts/push_to_dashboard.py) *)
(* as a state machine: several independent CI runs race on the remote      *)
(* documents data/{impl}/history.json and data/manifest.json, which are    *)
(* reached only through GET and conditional PUT of the Contents API.       *)
(*                                                                         *)
(* A commit entry is modelled by its sha, shortSha and timestamp; message, *)
(* platform and benchmarks are payload that no step of the synchronizer    *)
(* inspects, and the timestamp tells the pushes apart.                     *)
(*                                                                         *)
(* Four specifications share the actions and differ in the runs started:   *)
(*   Spec      racing runs for two implementations and two commits         *)
(*   SpecOne   racing runs for one implementation and two commits          *)
(*   SpecSame  racing runs that all push the same commit                   *)
(*   SpecSeq   runs that follow one another, with SOURCE_REPO and TAGS     *)
(*                                                                         *)
(* The other scripts of the pipeline run on files and share no state with  *)
(* the synchronizer; each has a specification of its own:                  *)
(*   SpecDetect    detect_regression.py                                    *)
(*   SpecBaseline  calculate_rolling_baseline.py                           *)
(*   SpecVerify    verify_test_vectors.py                                  *)
(* Metric values are exact numbers: the model does not round as floating   *)
(* point does, and its inputs are chosen so that Python does not either.   *)
(***************************************************************************)
EXTENDS Integers, Naturals, Sequences, FiniteSets, TLC

\* ------------------------------------------------------------------ bounds
MaxRuns == 2     \* runs that may be in progress at the same time
MaxRaces == 2    \* runs started in all when two implementations are pushed
MaxStarts == 3   \* runs started in all when one implementation is pushed
MaxPushes == 4   \* runs started in all when every run pushes the same commit
MaxValue == 3        \* metric values of the classifier are -1..MaxValue
MaxThreshold == 2    \* thresholds are -1/ThresholdDen..MaxThreshold/ThresholdDen
ThresholdDen == 2
MaxBenchmarks == 2   \* benchmarks of the current snapshot
MaxEighths == 2      \* metric values of the history are 1/8 .. MaxEighths/8
MaxFiles == 2        \* snapshot files of the results directory
MaxVectors == 3      \* benchmarks of the results given to the verifier

\* --------------------------------------------------------------- constants
MAX_RETRIES == 3
ShortShaLen == 7

Runs == 1..MaxRuns
Impls == {"X", "Y"}
Sha1 == <<1, 0, 0, 0, 0, 0, 0, 0>>
Sha2 == <<2, 0, 0, 0, 0, 0, 0, 0>>
Shas == {Sha1, Sha2}

VARIABLES
  pc,              \* position of each run in main()
  env,             \* the run's environment (IMPLEMENTATION, GITHUB_SHA, ...)
  timestamp,       \* main(): timestamp
  history,         \* main(): history["commits"] after the merge
  history_sha,     \* version token presented for history.json
  manifest,        \* main(): manifest after the merge
  manifest_sha,    \* version token presented for manifest.json
  attempt,         \* put_file(): attempt
  remoteHistory,   \* store: impl -> [commits, ver]; ver = 0 is a 404
  remoteManifest,  \* store: [doc, ver]; ver = 0 is a 404
  now,             \* wall clock read by datetime.now()
  det,             \* detect_regression.py: position, locals and outputs
  agg,             \* calculate_rolling_baseline.py: the same
  tvr              \* verify_test_vectors.py: the same

vars == <<pc, env, timestamp, history, history_sha, manifest, manifest_sha,
          attempt, remoteHistory, remoteManifest, now, det, agg, tvr>>

\* the state of the History Synchronizer
syncVars == <<pc, env, timestamp, history, history_sha, manifest,
              manifest_sha, attempt, remoteHistory, remoteManifest, now>>

\* a script that is not run by the specification at hand
NotRun == "not run"

\* ------------------------------------------------------- pure helpers
Min(a, b) == IF a < b THEN a ELSE b

Last(s) == s[Len(s)]

\* short_sha = commit_sha[:7] if commit_sha else ""
ShortSha(sha) == SubSeq(sha, 1, Min(ShortShaLen, Len(sha)))

Whitespace == {" "}

RECURSIVE LStrip(_)
LStrip(s) == IF s # <<>> /\ s[1] \in Whitespace THEN LStrip(Tail(s)) ELSE s

RECURSIVE RStrip(_)
RStrip(s) ==
  IF s # <<>> /\ s[Len(s)] \in Whitespace
    THEN RStrip(SubSeq(s, 1, Len(s) - 1))
    ELSE s

\* str.strip() on a sequence of characters
Strip(s) == RStrip(LStrip(s))

\* str.split(",") on a sequence of characters: always at least one piece
RECURSIVE SplitComma(_)
SplitComma(s) ==
  IF \A i \in DOMAIN s : s[i] # ","
    THEN <<s>>
    ELSE LET k == CHOOSE i \in DOMAIN s :
                    s[i] = "," /\ \A j \in 1..(i - 1) : s[j] # ","
         IN <<SubSeq(s, 1, k - 1)>> \o SplitComma(SubSeq(s, k + 1, Len(s)))

RECURSIVE StripNonEmpty(_)
StripNonEmpty(pieces) ==
  IF pieces = <<>> THEN <<>>
  ELSE IF Strip(pieces[1]) # <<>>
    THEN <<Strip(pieces[1])>> \o StripNonEmpty(Tail(pieces))
    ELSE StripNonEmpty(Tail(pieces))

\* TAGS = [t.strip() for t in raw.split(",") if t.strip()] if raw else []
ParseTags(raw) == IF raw = <<>> THEN <<>> ELSE StripNonEmpty(SplitComma(raw))

\* SOURCE_REPO: the variable, else the last segment of GITHUB_REPOSITORY
\* (given here already split on "/"), else IMPLEMENTATION
SourceRepo(source_repo, gh_repo, impl) ==
  IF source_repo # "" THEN source_repo
  ELSE IF gh_repo # <<>> THEN Last(gh_repo)
  ELSE impl

IMPLEMENTATION(r) == env[r].impl
GITHUB_SHA(r) == env[r].sha
SOURCE_REPO(r) == SourceRepo(env[r].source_repo, env[r].gh_repo, env[r].impl)
TAGS(r) == ParseTags(env[r].tags)

\* entry = {"sha": ..., "shortSha": ..., "timestamp": ..., ...}
Entry(r) ==
  [sha |-> GITHUB_SHA(r), shortSha |-> ShortSha(GITHUB_SHA(r)),
   timestamp |-> timestamp[r]]

ShasOf(commits) == {commits[i].sha : i \in DOMAIN commits}

\* variant: no membership test, every push is inserted at the front
MergeHistoryNoDedupe(commits, entry) == <<entry>> \o commits

\* variant: a known sha is dropped and the new entry inserted at the front
MergeHistoryMoveToFront(commits, entry) ==
  <<entry>> \o SelectSeq(commits, LAMBDA c : c.sha # entry.sha)

\* variant: a new sha is appended instead of inserted at index 0
MergeHistoryAppend(commits, entry) ==
  IF entry.sha \notin ShasOf(commits)
    THEN Append(commits, entry)
    ELSE [i \in DOMAIN commits |->
            IF commits[i].sha = entry.sha THEN entry ELSE commits[i]]

\* "Deduplicate by SHA": prepend a new sha, replace a known one in place
MergeHistory(commits, entry) ==
  IF entry.sha \notin ShasOf(commits)
    THEN <<entry>> \o commits
    ELSE [i \in DOMAIN commits |->
            IF commits[i].sha = entry.sha THEN entry ELSE commits[i]]

NoRepo == ""
NoTags == <<>>

EmptyManifest == [implementations |-> <<>>, lastUpdated |-> 0]

Found(impls, name) == \E i \in DOMAIN impls : impls[i].name = name

\* the entry the two "for impl in ..." loops stop at (the first match)
FirstIndex(impls, name) ==
  CHOOSE i \in DOMAIN impls :
    impls[i].name = name /\ \A j \in 1..(i - 1) : impls[j].name # name

\* variant: "impl['tags'] = TAGS" without the "if TAGS" guard
UpdateEntryAlwaysTags(e, name, count, short, repo, tags) ==
  [e EXCEPT !.commitCount = count,
            !.latestCommit = short,
            !.repo = IF repo # "" /\ repo # name THEN repo ELSE @,
            !.tags = tags]

\* the matching entry after both loops
UpdateEntry(e, name, count, short, repo, tags) ==
  [e EXCEPT !.commitCount = count,
            !.latestCommit = short,
            !.repo = IF repo # "" /\ repo # name THEN repo ELSE @,
            !.tags = IF tags # <<>> THEN tags ELSE @]

\* new_entry, appended when no entry matches
NewEntry(name, count, short, repo, tags) ==
  [name |-> name, type |-> "tracked", commitCount |-> count,
   latestCommit |-> short,
   repo |-> IF repo # "" /\ repo # name THEN repo ELSE NoRepo,
   tags |-> IF tags # <<>> THEN tags ELSE NoTags]

\* step 4 of main(): the manifest that is handed to put_file
MergeManifest(m, name, count, short, repo, tags, ts) ==
  [implementations |->
     IF Found(m.implementations, name)
       THEN [m.implementations EXCEPT
               ![FirstIndex(m.implementations, name)] =
                 UpdateEntry(@, name, count, short, repo, tags)]
       ELSE Append(m.implementations,
                   NewEntry(name, count, short, repo, tags)),
   lastUpdated |-> ts]

\* ------------------------------------------------------------ inputs
NoEnv == [impl |-> "", sha |-> <<>>, source_repo |-> "", gh_repo |-> <<>>,
          tags |-> <<>>]

\* environments of runs that push commits of one implementation
OneEnvs ==
  [impl : {"X"}, sha : Shas, source_repo : {""}, gh_repo : {<<>>},
   tags : {<<>>}]

\* environments of runs that push commits of two implementations
RaceEnvs ==
  [impl : Impls, sha : Shas, source_repo : {""}, gh_repo : {<<>>},
   tags : {<<>>}]

\* environment of runs that all push the same commit of one implementation
SameEnvs ==
  {[impl |-> "X", sha |-> Sha1, source_repo |-> "", gh_repo |-> <<>>,
    tags |-> <<>>]}

\* environments of the runs that follow one another: SOURCE_REPO unset,
\* set, set to the implementation's name, taken from GITHUB_REPOSITORY;
\* TAGS unset, blank ("  ,"), one tag ("g"), two tags ("g, c")
SeqEnvs ==
  {[impl |-> "X", sha |-> Sha1, source_repo |-> "", gh_repo |-> <<>>,
    tags |-> <<>>],
   [impl |-> "X", sha |-> Sha2, source_repo |-> "zkx", gh_repo |-> <<>>,
    tags |-> <<"g", ",", " ", "c">>],
   [impl |-> "X", sha |-> Sha1, source_repo |-> "X", gh_repo |-> <<>>,
    tags |-> <<" ", " ", ",">>],
   [impl |-> "X", sha |-> Sha2, source_repo |-> "",
    gh_repo |-> <<"fractalyze", "zk">>, tags |-> <<>>],
   [impl |-> "X", sha |-> Sha1, source_repo |-> "zk2", gh_repo |-> <<>>,
    tags |-> <<"g">>]}

\* ------------------------------------------------------------ state
SyncInit ==
  /\ pc = [r \in Runs |-> "idle"]
  /\ env = [r \in Runs |-> NoEnv]
  /\ timestamp = [r \in Runs |-> 0]
  /\ history = [r \in Runs |-> <<>>]
  /\ history_sha = [r \in Runs |-> 0]
  /\ manifest = [r \in Runs |-> EmptyManifest]
  /\ manifest_sha = [r \in Runs |-> 0]
  /\ attempt = [r \in Runs |-> 0]
  /\ remoteHistory = [i \in Impls |-> [commits |-> <<>>, ver |-> 0]]
  /\ remoteManifest = [doc |-> EmptyManifest, ver |-> 0]
  /\ now = 1

Init ==
  /\ SyncInit
  /\ det = NotRun
  /\ agg = NotRun
  /\ tvr = NotRun

Active(r) == pc[r] \notin {"idle", "done", "failed"}

\* the locals of a run that has ended are gone with its process
Ended(r, how) ==
  /\ pc' = [pc EXCEPT ![r] = how]
  /\ timestamp' = [timestamp EXCEPT ![r] = 0]
  /\ history' = [history EXCEPT ![r] = <<>>]
  /\ history_sha' = [history_sha EXCEPT ![r] = 0]
  /\ manifest' = [manifest EXCEPT ![r] = EmptyManifest]
  /\ manifest_sha' = [manifest_sha EXCEPT ![r] = 0]
  /\ attempt' = [attempt EXCEPT ![r] = 0]

\* main() steps 1-2: a run starts, reads its environment and the clock.
\* It takes the first free slot; the slot of a run that has ended keeps
\* that run's outcome and environment until it is taken again.
StartWith(r, envs, max) ==
  /\ ~Active(r)
  /\ \A q \in Runs : q < r => Active(q)
  /\ now <= max
  /\ \E e \in envs : env' = [env EXCEPT ![r] = e]
  /\ timestamp' = [timestamp EXCEPT ![r] = now]
  /\ now' = now + 1
  /\ pc' = [pc EXCEPT ![r] = "h_get"]
  /\ UNCHANGED <<history, history_sha, manifest, manifest_sha, attempt,
                 remoteHistory, remoteManifest>>
  /\ UNCHANGED <<det, agg, tvr>>

Start(r) == StartWith(r, RaceEnvs, MaxRaces)

\* a run among runs that all push to one implementation
StartOne(r) == StartWith(r, OneEnvs, MaxStarts)

\* a run among runs that all push the same commit
StartSame(r) == StartWith(r, SameEnvs, MaxPushes)

\* a run started by a pipeline that serialises its runs
StartSeq(r) ==
  /\ \A q \in Runs : ~Active(q)
  /\ StartWith(r, SeqEnvs, MaxStarts)

\* main() step 3 up to the call of put_file: get_file, default, dedupe
GetHistory(r) ==
  /\ pc[r] = "h_get"
  /\ LET remote == remoteHistory[IMPLEMENTATION(r)] IN
       /\ history' = [history EXCEPT ![r] = MergeHistory(remote.commits, Entry(r))]
       /\ history_sha' = [history_sha EXCEPT ![r] = remote.ver]
  /\ attempt' = [attempt EXCEPT ![r] = 1]
  /\ pc' = [pc EXCEPT ![r] = "h_put"]
  /\ UNCHANGED <<env, timestamp, manifest, manifest_sha, remoteHistory,
                 remoteManifest, now>>
  /\ UNCHANGED <<det, agg, tvr>>

\* put_file(history_path, ...): the PUT is accepted
PutHistoryOk(r) ==
  /\ pc[r] = "h_put"
  /\ history_sha[r] = remoteHistory[IMPLEMENTATION(r)].ver
  /\ remoteHistory' = [remoteHistory EXCEPT ![IMPLEMENTATION(r)] =
                         [commits |-> history[r], ver |-> @.ver + 1]]
  /\ pc' = [pc EXCEPT ![r] = "m_get"]
  /\ attempt' = [attempt EXCEPT ![r] = 0]
  /\ UNCHANGED <<env, timestamp, history, history_sha, manifest,
                 manifest_sha, remoteManifest, now>>
  /\ UNCHANGED <<det, agg, tvr>>

\* variant: "attempt <= MAX_RETRIES", so that the last rejection falls out
\* of the loop and put_file returns
PutHistoryConflictFallThrough(r) ==
  /\ pc[r] = "h_put"
  /\ history_sha[r] # remoteHistory[IMPLEMENTATION(r)].ver
  /\ IF attempt[r] < MAX_RETRIES
       THEN /\ pc' = [pc EXCEPT ![r] = "h_refetch"]
            /\ attempt' = attempt
       ELSE /\ pc' = [pc EXCEPT ![r] = "m_get"]
            /\ attempt' = [attempt EXCEPT ![r] = 0]
  /\ UNCHANGED <<env, timestamp, history, history_sha, manifest,
                 manifest_sha, remoteHistory, remoteManifest, now>>
  /\ UNCHANGED <<det, agg, tvr>>

\* put_file(history_path, ...): the PUT is rejected with 409
PutHistoryConflict(r) ==
  /\ pc[r] = "h_put"
  /\ history_sha[r] # remoteHistory[IMPLEMENTATION(r)].ver
  /\ IF attempt[r] < MAX_RETRIES
       THEN /\ pc' = [pc EXCEPT ![r] = "h_refetch"]
            /\ UNCHANGED <<timestamp, history, history_sha, manifest,
                           manifest_sha, attempt>>
       ELSE Ended(r, "failed")
  /\ UNCHANGED <<env, remoteHistory, remoteManifest, now>>
  /\ UNCHANGED <<det, agg, tvr>>

\* put_file: "_, file_sha = get_file(path)", then the next attempt
RefetchHistory(r) ==
  /\ pc[r] = "h_refetch"
  /\ history_sha' = [history_sha EXCEPT ![r] =
                       remoteHistory[IMPLEMENTATION(r)].ver]
  /\ attempt' = [attempt EXCEPT ![r] = @ + 1]
  /\ pc' = [pc EXCEPT ![r] = "h_put"]
  /\ UNCHANGED <<env, timestamp, history, manifest, manifest_sha,
                 remoteHistory, remoteManifest, now>>
  /\ UNCHANGED <<det, agg, tvr>>

\* main() step 4 up to the call of put_file
GetManifest(r) ==
  /\ pc[r] = "m_get"
  /\ manifest' = [manifest EXCEPT ![r] =
       MergeManifest(remoteManifest.doc, IMPLEMENTATION(r), Len(history[r]),
                     ShortSha(GITHUB_SHA(r)), SOURCE_REPO(r), TAGS(r),
                     timestamp[r])]
  /\ manifest_sha' = [manifest_sha EXCEPT ![r] = remoteManifest.ver]
  /\ attempt' = [attempt EXCEPT ![r] = 1]
  /\ pc' = [pc EXCEPT ![r] = "m_put"]
  /\ UNCHANGED <<env, timestamp, history, history_sha, remoteHistory,
                 remoteManifest, now>>
  /\ UNCHANGED <<det, agg, tvr>>

\* put_file(manifest_path, ...): the PUT is accepted, main() returns 0
PutManifestOk(r) ==
  /\ pc[r] = "m_put"
  /\ manifest_sha[r] = remoteManifest.ver
  /\ remoteManifest' = [doc |-> manifest[r], ver |-> remoteManifest.ver + 1]
  /\ Ended(r, "done")
  /\ UNCHANGED <<env, remoteHistory, now>>
  /\ UNCHANGED <<det, agg, tvr>>

\* put_file(manifest_path, ...): the PUT is rejected with 409
PutManifestConflict(r) ==
  /\ pc[r] = "m_put"
  /\ manifest_sha[r] # remoteManifest.ver
  /\ IF attempt[r] < MAX_RETRIES
       THEN /\ pc' = [pc EXCEPT ![r] = "m_refetch"]
            /\ UNCHANGED <<timestamp, history, history_sha, manifest,
                           manifest_sha, attempt>>
       ELSE Ended(r, "failed")
  /\ UNCHANGED <<env, remoteHistory, remoteManifest, now>>
  /\ UNCHANGED <<det, agg, tvr>>

RefetchManifest(r) ==
  /\ pc[r] = "m_refetch"
  /\ manifest_sha' = [manifest_sha EXCEPT ![r] = remoteManifest.ver]
  /\ attempt' = [attempt EXCEPT ![r] = @ + 1]
  /\ pc' = [pc EXCEPT ![r] = "m_put"]
  /\ UNCHANGED <<env, timestamp, history, history_sha, manifest,
                 remoteHistory, remoteManifest, now>>
  /\ UNCHANGED <<det, agg, tvr>>

\* variant: the error of the history phase is caught and main() goes on
FailSwallowed(r) ==
  /\ Active(r)
  /\ IF pc[r] \in {"h_get", "h_put", "h_refetch"}
       THEN /\ pc' = [pc EXCEPT ![r] = "m_get"]
            /\ attempt' = [attempt EXCEPT ![r] = 0]
            /\ UNCHANGED <<timestamp, history, history_sha, manifest,
                           manifest_sha>>
       ELSE Ended(r, "failed")
  /\ UNCHANGED <<env, remoteHistory, remoteManifest, now>>
  /\ UNCHANGED <<det, agg, tvr>>

\* any remote call may raise another HTTP error, which nothing catches
\* (a PUT without token for an existing file is answered 422 by the API)
Fail(r) ==
  /\ Active(r)
  /\ Ended(r, "failed")
  /\ UNCHANGED <<env, remoteHistory, remoteManifest, now>>
  /\ UNCHANGED <<det, agg, tvr>>

Next ==
  \E r \in Runs :
    \/ Start(r)
    \/ GetHistory(r)
    \/ PutHistoryOk(r)
    \/ PutHistoryConflict(r)
    \/ RefetchHistory(r)
    \/ GetManifest(r)
    \/ PutManifestOk(r)
    \/ PutManifestConflict(r)
    \/ RefetchManifest(r)
    \/ Fail(r)

Spec == Init /\ [][Next]_vars

\* runs that follow one another: no PUT can meet a stale token
NextSeq ==
  \E r \in Runs :
    \/ StartSeq(r)
    \/ GetHistory(r)
    \/ PutHistoryOk(r)
    \/ GetManifest(r)
    \/ PutManifestOk(r)
    \/ Fail(r)

SpecSeq == Init /\ [][NextSeq]_vars

\* racing runs that all push to one implementation
NextOne ==
  \E r \in Runs :
    \/ StartOne(r)
    \/ GetHistory(r)
    \/ PutHistoryOk(r)
    \/ PutHistoryConflict(r)
    \/ RefetchHistory(r)
    \/ GetManifest(r)
    \/ PutManifestOk(r)
    \/ PutManifestConflict(r)
    \/ RefetchManifest(r)
    \/ Fail(r)

SpecOne == Init /\ [][NextOne]_vars

\* racing runs that all push the same commit
NextSame ==
  \E r \in Runs :
    \/ StartSame(r)
    \/ GetHistory(r)
    \/ PutHistoryOk(r)
    \/ PutHistoryConflict(r)
    \/ RefetchHistory(r)
    \/ GetManifest(r)
    \/ PutManifestOk(r)
    \/ PutManifestConflict(r)
    \/ RefetchManifest(r)
    \/ Fail(r)

SpecSame == Init /\ [][NextSame]_vars

TypeOK ==
  /\ pc \in [Runs -> {"idle", "h_get", "h_put", "h_refetch", "m_get",
                      "m_put", "m_refetch", "done", "failed"}]
  /\ \A r \in Runs : attempt[r] \in 0..MAX_RETRIES

\* ==================================================================
\* detect_regression.py
\* ==================================================================
\* (key, label for regression, label for improvement, direction)
_METRICS ==
  <<[key |-> "latency", regress_label |-> "slower",
     improve_label |-> "faster", direction |-> "increase"],
    [key |-> "throughput", regress_label |-> "lower",
     improve_label |-> "higher", direction |-> "decrease"],
    [key |-> "memory", regress_label |-> "more",
     improve_label |-> "less", direction |-> "increase"]>>

\* a metric of a benchmark in a snapshot: missing, or a number
Absent == [kind |-> "absent", value |-> 0]
Num(v) == [kind |-> "num", value |-> v]
DetEntries == {Absent} \cup {Num(v) : v \in -1..MaxValue}

\* REGRESSION_THRESHOLD, as the numerator of a fraction over ThresholdDen
Thresholds == -1..MaxThreshold

\* bench.get(key, {}).get("value", 0)
ValueOr0(entry) == IF entry.kind = "absent" THEN 0 ELSE entry.value

\* change = (curr_val - base_val) / base_val, compared with base_val > 0
ChangeAbove(curr_val, base_val, threshold) ==
  (curr_val - base_val) * ThresholdDen > threshold * base_val

ChangeBelowMinus(curr_val, base_val, threshold) ==
  (curr_val - base_val) * ThresholdDen < (0 - threshold) * base_val

\* variant: ">=" and "<=" in the two tests
CheckMetricInclusive(curr_entry, base_entry, threshold, direction) ==
  LET curr_val == ValueOr0(curr_entry)
      base_val == ValueOr0(base_entry)
      up == ~ChangeBelowMinus(curr_val, base_val, 0 - threshold)
      down == ~ChangeAbove(curr_val, base_val, 0 - threshold)
  IN IF base_val <= 0 \/ curr_val <= 0 THEN "none"
     ELSE IF (IF direction = "increase" THEN up ELSE down) THEN "regression"
     ELSE IF (IF direction = "increase" THEN down ELSE up) THEN "improvement"
     ELSE "none"

\* variant: only the baseline value is tested against 0
CheckMetricBaseOnly(curr_entry, base_entry, threshold, direction) ==
  LET curr_val == ValueOr0(curr_entry)
      base_val == ValueOr0(base_entry)
      is_regression == IF direction = "increase"
                         THEN ChangeAbove(curr_val, base_val, threshold)
                         ELSE ChangeBelowMinus(curr_val, base_val, threshold)
      is_improvement == IF direction = "increase"
                          THEN ChangeBelowMinus(curr_val, base_val, threshold)
                          ELSE ChangeAbove(curr_val, base_val, threshold)
  IN IF base_val <= 0 THEN "none"
     ELSE IF is_regression THEN "regression"
     ELSE IF is_improvement THEN "improvement"
     ELSE "none"

\* _check_metric: "regression", "improvement" or None
CheckMetric(curr_entry, base_entry, threshold, direction) ==
  LET curr_val == ValueOr0(curr_entry)
      base_val == ValueOr0(base_entry)
      is_regression == IF direction = "increase"
                         THEN ChangeAbove(curr_val, base_val, threshold)
                         ELSE ChangeBelowMinus(curr_val, base_val, threshold)
      is_improvement == IF direction = "increase"
                          THEN ChangeBelowMinus(curr_val, base_val, threshold)
                          ELSE ChangeAbove(curr_val, base_val, threshold)
  IN IF base_val <= 0 \/ curr_val <= 0 THEN "none"
     ELSE IF is_regression THEN "regression"
     ELSE IF is_improvement THEN "improvement"
     ELSE "none"

\* variant: the test for a regression comes first
ChangeTypeRegressionFirst(has_any_regression, has_any_improvement) ==
  IF has_any_regression THEN "regression"
  ELSE IF has_any_regression /\ has_any_improvement THEN "mixed"
  ELSE IF has_any_improvement THEN "improvement"
  ELSE ""

\* main(): change_type
ChangeType(has_any_regression, has_any_improvement) ==
  IF has_any_regression /\ has_any_improvement THEN "mixed"
  ELSE IF has_any_regression THEN "regression"
  ELSE IF has_any_improvement THEN "improvement"
  ELSE ""

\* the locals of main() before the first statement; name is the number of
\* the benchmark at hand, metric the index into _METRICS of the last check
DetStart(threshold) ==
  [pc |-> "start", threshold |-> threshold, name |-> 0, metric |-> 0,
   in_baseline |-> FALSE, curr_entry |-> Absent, base_entry |-> Absent,
   result |-> "none", has_any_regression |-> FALSE,
   has_any_improvement |-> FALSE, warnings |-> 0, notices |-> 0,
   change_type |-> "", written |-> {}]

DetInit ==
  /\ SyncInit
  /\ det \in {DetStart(t) : t \in Thresholds}
  /\ agg = NotRun
  /\ tvr = NotRun

\* main(): no baseline file, return 0
DetNoBaseline ==
  /\ det.pc = "start"
  /\ det' = [det EXCEPT !.pc = "done"]
  /\ UNCHANGED <<syncVars, agg, tvr>>

\* main(): both files are read, the loop begins
DetOpen ==
  /\ det.pc = "start"
  /\ det' = [det EXCEPT !.pc = "bench"]
  /\ UNCHANGED <<syncVars, agg, tvr>>

\* the next benchmark of the current snapshot is not in the baseline
DetSkipBench ==
  /\ det.pc = "bench"
  /\ det.name < MaxBenchmarks
  /\ det' = [det EXCEPT !.name = @ + 1, !.in_baseline = FALSE]
  /\ UNCHANGED <<syncVars, agg, tvr>>

\* the next benchmark of the current snapshot is in the baseline
DetEnterBench ==
  /\ det.pc = "bench"
  /\ det.name < MaxBenchmarks
  /\ det' = [det EXCEPT !.name = @ + 1, !.in_baseline = TRUE,
                        !.metric = 0, !.pc = "metric"]
  /\ UNCHANGED <<syncVars, agg, tvr>>

\* one turn of "for key, ... in _METRICS": _check_metric and the flags;
\* the two entries are what the snapshots hold for the benchmark and key
DetCheckMetric ==
  /\ det.pc = "metric"
  /\ \E curr_entry, base_entry \in DetEntries :
       LET k == det.metric + 1
           result == CheckMetric(curr_entry, base_entry, det.threshold,
                                 _METRICS[k].direction)
       IN det' = [det EXCEPT
            !.metric = k,
            !.curr_entry = curr_entry,
            !.base_entry = base_entry,
            !.result = result,
            !.warnings = IF result = "regression" THEN @ + 1 ELSE @,
            !.notices = IF result = "improvement" THEN @ + 1 ELSE @,
            !.has_any_regression = @ \/ result = "regression",
            !.has_any_improvement =
               @ \/ (result # "regression" /\ result = "improvement"),
            !.pc = IF k = Len(_METRICS) THEN "bench" ELSE "metric"]
  /\ UNCHANGED <<syncVars, agg, tvr>>

\* main() after the loop: change_type and the lines added to GITHUB_OUTPUT
DetFinish ==
  /\ det.pc = "bench"
  /\ \E github_output \in BOOLEAN :
       LET has_significant_change ==
             det.has_any_regression \/ det.has_any_improvement
           change_type ==
             ChangeType(det.has_any_regression, det.has_any_improvement)
       IN det' = [det EXCEPT
            !.pc = "done",
            !.change_type = change_type,
            !.written =
               IF github_output
                 THEN (IF has_significant_change
                         THEN {<<"has_significant_change", "true">>}
                         ELSE {})
                      \cup (IF change_type # ""
                              THEN {<<"change_type", change_type>>}
                              ELSE {})
                 ELSE {}]
  /\ UNCHANGED <<syncVars, agg, tvr>>

DetNext ==
  \/ DetNoBaseline
  \/ DetOpen
  \/ DetSkipBench
  \/ DetEnterBench
  \/ DetCheckMetric
  \/ DetFinish

SpecDetect == DetInit /\ [][DetNext]_vars

\* ==================================================================
\* calculate_rolling_baseline.py
\* A number is counted in units of 1/200, so that an eighth is 25 and a
\* hundredth is 2. A metric of a benchmark is Absent (no such key), Null
\* (value null), Str (a value sum() cannot add) or Num(v).
\* ==================================================================
Null == [kind |-> "null", value |-> 0]

Str == [kind |-> "str", value |-> 0]

AveragedKeys == <<"latency", "throughput">>

MetricValues == {Absent, Null, Str} \cup {Num(25 * k) : k \in 1..MaxEighths}

HistoryBenches ==
  [latency : MetricValues,
   throughput : {Absent, Str, Num(25 * MaxEighths)},
   memory : {Absent, Num(25)}]

OtherBench == [latency |-> Num(25), throughput |-> Absent, memory |-> Absent]

BenchNames == {"a", "b"}

\* the "benchmarks" mappings of a snapshot
BenchMaps ==
  {[name \in names |-> IF name = "a" THEN bench ELSE OtherBench] :
     names \in SUBSET BenchNames, bench \in HistoryBenches}

\* the files matching the pattern, by ascending name; the snapshot of the
\* i-th name carries timestamp i
Directories(n) ==
  {[i \in 1..n |-> [metadata |-> [timestamp |-> i], benchmarks |-> maps[i]]] :
     maps \in [1..n -> BenchMaps]}

\* sorted by name, reverse = True, the first `window` of them
load_historical_results(dir, window) ==
  [i \in 1..Min(window, Len(dir)) |-> dir[Len(dir) + 1 - i]]

min_samples == 2

\* int(round(num / den)) for num >= 0, den > 0, a tie going to the even
RoundHalfEven(num, den) ==
  LET q == num \div den
      r == num % den
  IN IF 2 * r < den THEN q
     ELSE IF 2 * r > den THEN q + 1
     ELSE IF q % 2 = 0 THEN q ELSE q + 1

\* round(x, 2) of x = sum / n
Round2(sum, n) == 2 * RoundHalfEven(sum, 2 * n)

RECURSIVE SumOf(_)
SumOf(values) ==
  IF values = <<>> THEN 0 ELSE values[1].value + SumOf(Tail(values))

\* benchmark_data[name]["latencies"] or ["throughputs"]: the values that
\* are not None, of the snapshots that have the benchmark, absent a 0
CollectedAbsentAsZero(results, name, key) ==
  LET has == SelectSeq([i \in 1..Len(results) |-> i],
                       LAMBDA i : name \in DOMAIN results[i].benchmarks)
  IN [j \in DOMAIN has |->
        LET e == results[has[j]].benchmarks[name][key]
        IN IF e.kind \in {"absent", "null"} THEN Num(0) ELSE e]

Collected(results, name, key) ==
  LET has == SelectSeq([i \in 1..Len(results) |-> i],
                       LAMBDA i :
                         /\ name \in DOMAIN results[i].benchmarks
                         /\ results[i].benchmarks[name][key].kind
                              \notin {"absent", "null"})
  IN [j \in DOMAIN has |-> results[has[j]].benchmarks[name][key]]

AllNames(results) ==
  UNION {DOMAIN results[i].benchmarks : i \in DOMAIN results}

\* sum() raises TypeError on a collected value that is not a number
RaisesTypeError(results) ==
  \E name \in AllNames(results), k \in DOMAIN AveragedKeys :
    \E j \in DOMAIN Collected(results, name, AveragedKeys[k]) :
      Collected(results, name, AveragedKeys[k])[j].kind = "str"

Average(results, name, key) ==
  LET values == Collected(results, name, key)
  IN IF values = <<>> THEN Absent
     ELSE Num(Round2(SumOf(values), Len(values)))

\* for results # <<>> with no TypeError
calculate_average_baseline(results) ==
  [metadata |-> [timestamp |-> results[1].metadata.timestamp,
                 baseline_type |-> "rolling_average",
                 sample_count |-> Len(results)],
   benchmarks |->
     [name \in AllNames(results) |->
        [latency |-> Average(results, name, "latency"),
         throughput |-> Average(results, name, "throughput"),
         memory |-> Absent]]]

NotExited == -1

AggStart ==
  [pc |-> "start", available |-> 0, results |-> <<>>, baseline |-> <<>>,
   exit |-> NotExited]

AggInit ==
  /\ SyncInit
  /\ det = NotRun
  /\ tvr = NotRun
  /\ agg = AggStart

\* "if not results_dir.exists(): return 0"
AggNoDirectory ==
  /\ agg.pc = "start"
  /\ agg' = [agg EXCEPT !.pc = "done", !.exit = 0]
  /\ UNCHANGED <<syncVars, det, tvr>>

\* results = load_historical_results(results_dir, window)
AggLoad ==
  /\ agg.pc = "start"
  /\ \E n \in 0..MaxFiles, window \in 1..MaxFiles :
       \E dir \in Directories(n) :
         agg' = [agg EXCEPT !.pc = "loaded", !.available = n,
                            !.results = load_historical_results(dir, window)]
  /\ UNCHANGED <<syncVars, det, tvr>>

\* the fallback written with calculate_average_baseline
AggFallbackAveraged ==
  /\ agg.pc = "loaded"
  /\ Len(agg.results) < min_samples
  /\ agg' = [agg EXCEPT
       !.baseline = IF agg.results # <<>>
                      THEN <<calculate_average_baseline(agg.results)>>
                      ELSE @,
       !.pc = "done", !.exit = 0]
  /\ UNCHANGED <<syncVars, det, tvr>>

\* "if len(results) < min_samples": results[0] is dumped, if there is one
AggFallback ==
  /\ agg.pc = "loaded"
  /\ Len(agg.results) < min_samples
  /\ agg' = [agg EXCEPT
       !.baseline = IF agg.results # <<>> THEN <<agg.results[1]>> ELSE @,
       !.pc = "done", !.exit = 0]
  /\ UNCHANGED <<syncVars, det, tvr>>

\* baseline = calculate_average_baseline(results), dumped to baseline.json
AggAverage ==
  /\ agg.pc = "loaded"
  /\ Len(agg.results) >= min_samples
  /\ ~RaisesTypeError(agg.results)
  /\ agg' = [agg EXCEPT
       !.baseline = <<calculate_average_baseline(agg.results)>>,
       !.pc = "done", !.exit = 0]
  /\ UNCHANGED <<syncVars, det, tvr>>

\* the TypeError of sum() leaves main() before baseline.json is opened
AggTypeError ==
  /\ agg.pc = "loaded"
  /\ Len(agg.results) >= min_samples
  /\ RaisesTypeError(agg.results)
  /\ agg' = [agg EXCEPT !.pc = "done", !.exit = 1]
  /\ UNCHANGED <<syncVars, det, tvr>>

AggNext ==
  \/ AggNoDirectory
  \/ AggLoad
  \/ AggFallback
  \/ AggAverage
  \/ AggTypeError

SpecBaseline == AggInit /\ [][AggNext]_vars

\* ==================================================================
\* verify_test_vectors.py
\* A benchmark of the results is told by its test_vectors: "missing" (no
\* such key), "empty" (no "verified" in it), "true" or "false".
\* ==================================================================
TestVectors == {"missing", "empty", "true", "false"}

\* the results files: without a "benchmarks" key, or with 0..MaxVectors
\* benchmarks, named 1, 2, ...
ResultsData ==
  {[has_benchmarks |-> FALSE, benchmarks |-> <<>>]} \cup
  UNION {[has_benchmarks : {TRUE}, benchmarks : [1..n -> TestVectors]] :
           n \in 0..MaxVectors}

\* a missing "verified" taken for verified
VerifiedDefaultTrue(tv) ==
  IF tv \in {"missing", "empty"} THEN TRUE ELSE tv = "true"

\* bench.get("test_vectors", {}).get("verified", False)
Verified(tv) ==
  IF tv \in {"missing", "empty"} THEN FALSE ELSE tv = "true"

\* data.get("benchmarks", {}) and the names appended to failed
Failed(data) ==
  {name \in DOMAIN data.benchmarks : ~Verified(data.benchmarks[name])}

TvrStart ==
  [pc |-> "start", data |-> [has_benchmarks |-> FALSE, benchmarks |-> <<>>],
   failed |-> {}, exit |-> NotExited]

TvrInit ==
  /\ SyncInit
  /\ det = NotRun
  /\ agg = NotRun
  /\ tvr = TvrStart

\* data = json.load(f), and the loop that fills failed
TvrCheck ==
  /\ tvr.pc = "start"
  /\ \E data \in ResultsData :
       tvr' = [tvr EXCEPT !.pc = "checked", !.data = data,
                          !.failed = Failed(data)]
  /\ UNCHANGED <<syncVars, det, agg>>

\* "if failed: ... return 1"
TvrReturn1 ==
  /\ tvr.pc = "checked"
  /\ tvr.failed # {}
  /\ tvr' = [tvr EXCEPT !.pc = "done", !.exit = 1]
  /\ UNCHANGED <<syncVars, det, agg>>

\* "return 0"
TvrReturn0 ==
  /\ tvr.pc = "checked"
  /\ tvr.failed = {}
  /\ tvr' = [tvr EXCEPT !.pc = "done", !.exit = 0]
  /\ UNCHANGED <<syncVars, det, agg>>

TvrNext ==
  \/ TvrCheck
  \/ TvrReturn1
  \/ TvrReturn0

SpecVerify == TvrInit /\ [][TvrNext]_vars

\* ==================================================================
\* Properties
\* ==================================================================
Started == now - 1

RemoteCommits(i) == remoteHistory[i].commits

EntryOf(doc, name) == doc.implementations[FirstIndex(doc.implementations, name)]

NewestFirst(commits) ==
  \A i, j \in DOMAIN commits :
    i < j => commits[i].timestamp >= commits[j].timestamp

\* steps of run r, told by its position before and after
HistoryMerged(r) == pc[r] = "h_get" /\ pc'[r] = "h_put"
HistoryAccepted(r) == pc[r] = "h_put" /\ pc'[r] = "m_get"
ManifestMerged(r) == pc[r] = "m_get" /\ pc'[r] = "m_put"
ManifestAccepted(r) == pc[r] = "m_put" /\ pc'[r] = "done"

\* C1: when two runs for the same implementation with different shas are
\* the only runs and both have finished successfully, the remote history
\* document holds the entry of both.
C1_NoLostUpdate ==
  \A r1, r2 \in Runs :
    ( /\ r1 # r2
      /\ Started = 2
      /\ pc[r1] = "done" /\ pc[r2] = "done"
      /\ env[r1].impl = env[r2].impl
      /\ env[r1].sha # env[r2].sha )
    => {env[r1].sha, env[r2].sha} \subseteq ShasOf(RemoteCommits(env[r1].impl))

C3_RetryBudget ==
  [][\A r \in Runs :
       /\ attempt'[r] <= MAX_RETRIES
       /\ HistoryAccepted(r)
            => remoteHistory'[IMPLEMENTATION(r)] =
                 [commits |-> history[r],
                  ver |-> remoteHistory[IMPLEMENTATION(r)].ver + 1]
       /\ ManifestAccepted(r)
            => remoteManifest' =
                 [doc |-> manifest[r], ver |-> remoteManifest.ver + 1]
       /\ ( /\ pc[r] \in {"h_put", "m_put"}
            /\ attempt[r] = MAX_RETRIES
            /\ pc'[r] # pc[r]
            /\ remoteHistory' = remoteHistory
            /\ remoteManifest' = remoteManifest )
            => pc'[r] = "failed"]_vars

\* the third attempt of a run meets a stale token
C3_Witness ==
  \E r \in Runs :
    /\ pc[r] = "h_put"
    /\ attempt[r] = MAX_RETRIES
    /\ history_sha[r] # remoteHistory[IMPLEMENTATION(r)].ver

\* C4: at the end of every successful run the manifest's commitCount of the
\* run's implementation is the length of its remote history.
C4_CountEqualsHistory ==
  [][\A r \in Runs :
       ManifestAccepted(r)
         => /\ Found(remoteManifest'.doc.implementations, IMPLEMENTATION(r))
            /\ EntryOf(remoteManifest'.doc, IMPLEMENTATION(r)).commitCount =
                 Len(RemoteCommits(IMPLEMENTATION(r))')]_vars

\* C5: the manifest's commitCount of an implementation never exceeds the
\* length of its remote history.
C5_ManifestNeverAhead ==
  \A i \in Impls :
    Found(remoteManifest.doc.implementations, i)
      => EntryOf(remoteManifest.doc, i).commitCount <= Len(RemoteCommits(i))

\* C6: the remote history holds at most one entry per sha.
C6_OneEntryPerSha ==
  \A i \in Impls :
    \A j, k \in DOMAIN RemoteCommits(i) :
      j # k => RemoteCommits(i)[j].sha # RemoteCommits(i)[k].sha

\* the third write of one implementation's history was accepted and left
\* two entries: a sha was pushed again
C6_Witness ==
  \E i \in Impls :
    /\ remoteHistory[i].ver = 3
    /\ Len(RemoteCommits(i)) = 2
    /\ \E r \in Runs :
         /\ pc[r] = "m_get"
         /\ env[r].impl = i
         /\ history[r] = RemoteCommits(i)

\* C7: merging an entry whose sha the document already holds keeps the
\* length, keeps every entry of another sha where it is, and puts the new
\* entry where the old entry of that sha was.
C7_MergeReplacesInPlace ==
  [][\A r \in Runs :
       LET base == RemoteCommits(IMPLEMENTATION(r)) IN
       (HistoryMerged(r) /\ GITHUB_SHA(r) \in ShasOf(base))
         => /\ Len(history'[r]) = Len(base)
            /\ \A i \in DOMAIN base :
                 history'[r][i] =
                   IF base[i].sha = GITHUB_SHA(r)
                     THEN [sha |-> GITHUB_SHA(r),
                           shortSha |-> ShortSha(GITHUB_SHA(r)),
                           timestamp |-> timestamp[r]]
                     ELSE base[i]]_vars

\* a run has merged a push of a sha that the document held in second place
C7_Witness ==
  \E r \in Runs :
    LET base == RemoteCommits(IMPLEMENTATION(r)) IN
    /\ pc[r] = "h_put" /\ attempt[r] = 1
    /\ history_sha[r] = remoteHistory[IMPLEMENTATION(r)].ver
    /\ Len(base) = 2
    /\ base[2].sha = GITHUB_SHA(r)
    /\ base[2].timestamp < timestamp[r]
    /\ history[r] = <<base[1], Entry(r)>>

\* C8 as stated: after runs that follow one another, re-pushes included,
\* every remote history is ordered newest-first.
C8_AlwaysNewestFirst == \A i \in Impls : NewestFirst(RemoteCommits(i))

\* C8 amended: a run that follows the others and pushes a sha not yet
\* recorded onto a newest-first history leaves it newest-first.
C8_NewShaKeepsNewestFirst ==
  [][\A r \in Runs :
       ( /\ HistoryAccepted(r)
         /\ GITHUB_SHA(r) \notin ShasOf(RemoteCommits(IMPLEMENTATION(r)))
         /\ NewestFirst(RemoteCommits(IMPLEMENTATION(r))) )
       => NewestFirst(RemoteCommits(IMPLEMENTATION(r))')]_vars

\* a new sha was pushed onto a history of one entry
C8_Witness ==
  \E r \in Runs :
    /\ pc[r] = "m_get"
    /\ RemoteCommits(IMPLEMENTATION(r)) = history[r]
    /\ Len(history[r]) = 2
    /\ history[r][1] = Entry(r)
    /\ history[r][2].sha # GITHUB_SHA(r)

\* C9: when a run for X and a run for Y are the only runs and both have
\* finished successfully, the manifest holds the entry of both, each with
\* the values its run wrote.
C9_BothEntriesKept ==
  \A r1, r2 \in Runs :
    ( /\ r1 # r2
      /\ Started = 2
      /\ pc[r1] = "done" /\ pc[r2] = "done"
      /\ env[r1].impl # env[r2].impl )
    => \A r \in {r1, r2} :
         /\ Found(remoteManifest.doc.implementations, env[r].impl)
         /\ EntryOf(remoteManifest.doc, env[r].impl).latestCommit =
              ShortSha(env[r].sha)
         /\ EntryOf(remoteManifest.doc, env[r].impl).commitCount = 1

\* the value a run supplies for repo: SOURCE_REPO, else the repository name
\* of GITHUB_REPOSITORY, else nothing
SuppliedRepo(r) ==
  IF env[r].source_repo # "" THEN env[r].source_repo
  ELSE IF env[r].gh_repo # <<>> THEN Last(env[r].gh_repo)
  ELSE ""

\* C10 as stated: an update of an existing entry sets tags and repo to the
\* supplied value when that is not empty and keeps them otherwise.
C10_NonEmptyValueReplaces ==
  [][\A r \in Runs :
       (ManifestMerged(r)
          /\ Found(remoteManifest.doc.implementations, IMPLEMENTATION(r)))
       => LET old == EntryOf(remoteManifest.doc, IMPLEMENTATION(r))
              new == EntryOf(manifest'[r], IMPLEMENTATION(r))
          IN /\ new.tags = IF TAGS(r) # <<>> THEN TAGS(r) ELSE old.tags
             /\ new.repo = IF SuppliedRepo(r) # ""
                             THEN SuppliedRepo(r) ELSE old.repo]_vars

\* C10 amended: tags take the parsed TAGS when that list is not empty, repo
\* takes the supplied value when it is not empty and is not the name of the
\* implementation; otherwise they keep the values of the manifest read.
C10_TagsRepoPreserved ==
  [][\A r \in Runs :
       (ManifestMerged(r)
          /\ Found(remoteManifest.doc.implementations, IMPLEMENTATION(r)))
       => LET old == EntryOf(remoteManifest.doc, IMPLEMENTATION(r))
              new == EntryOf(manifest'[r], IMPLEMENTATION(r))
          IN /\ new.tags = IF TAGS(r) # <<>> THEN TAGS(r) ELSE old.tags
             /\ new.repo = IF SuppliedRepo(r) # ""
                              /\ SuppliedRepo(r) # IMPLEMENTATION(r)
                             THEN SuppliedRepo(r) ELSE old.repo]_vars

\* a run with blank TAGS and SOURCE_REPO equal to the implementation's name
\* has merged into an entry that carries tags and a repo
C10_Witness ==
  \E r \in Runs :
    /\ pc[r] = "m_put"
    /\ manifest_sha[r] = remoteManifest.ver
    /\ Found(remoteManifest.doc.implementations, IMPLEMENTATION(r))
    /\ env[r].tags # <<>> /\ TAGS(r) = <<>>
    /\ env[r].source_repo = IMPLEMENTATION(r)
    /\ EntryOf(remoteManifest.doc, IMPLEMENTATION(r)).tags # NoTags
    /\ EntryOf(remoteManifest.doc, IMPLEMENTATION(r)).repo # NoRepo
    /\ EntryOf(manifest[r], IMPLEMENTATION(r)).tags =
         EntryOf(remoteManifest.doc, IMPLEMENTATION(r)).tags
    /\ EntryOf(manifest[r], IMPLEMENTATION(r)).repo =
         EntryOf(remoteManifest.doc, IMPLEMENTATION(r)).repo

ManifestPhase == {"m_get", "m_put", "m_refetch"}

\* C17: a run enters the manifest part of main() only by the step in which
\* its history PUT is accepted, the manifest is written only by a run that
\* is at its manifest PUT, and a run returns 0 only from there; so a run
\* that fails on the history document never reads or writes the manifest.
C17_HistoryBeforeManifest ==
  [][/\ \A r \in Runs :
          /\ (pc'[r] \in ManifestPhase /\ pc[r] \notin ManifestPhase)
               => /\ pc[r] = "h_put"
                  /\ history_sha[r] = remoteHistory[IMPLEMENTATION(r)].ver
                  /\ RemoteCommits(IMPLEMENTATION(r))' = history[r]
          /\ (pc'[r] = "done" /\ pc[r] # "done") => pc[r] = "m_put"
     /\ remoteManifest' # remoteManifest
          => \E r \in Runs : pc[r] = "m_put" /\ pc'[r] = "done"]_vars

\* one run is at its manifest PUT with its entry in the remote history,
\* another run has failed, and the manifest has not been written
C17_Witness ==
  \E r1, r2 \in Runs :
    /\ pc[r1] = "m_put"
    /\ \E i \in DOMAIN RemoteCommits(IMPLEMENTATION(r1)) :
         RemoteCommits(IMPLEMENTATION(r1))[i] = Entry(r1)
    /\ pc[r2] = "failed"
    /\ remoteManifest.ver = 0

\* ------------------------------------------------ detect_regression.py
\* change > t and change < -t for change = (curr - base) / base, base > 0,
\* t = threshold / ThresholdDen, as curr/base against 1 + t and 1 - t
ExceedsUp(curr, base, threshold) ==
  ThresholdDen * curr > (ThresholdDen + threshold) * base

ExceedsDown(curr, base, threshold) ==
  ThresholdDen * curr < (ThresholdDen - threshold) * base

\* C11: with t >= 0, base > 0 and curr > 0, latency and memory are a
\* regression iff change > t and an improvement iff change < -t, throughput
\* the other way round, and the metric is none in every other case.
C11_DirectionalClassification ==
  LET curr == det.curr_entry.value
      base == det.base_entry.value
      up == ExceedsUp(curr, base, det.threshold)
      down == ExceedsDown(curr, base, det.threshold)
  IN ( /\ det.metric > 0
       /\ det.threshold >= 0
       /\ det.curr_entry.kind = "num" /\ curr > 0
       /\ det.base_entry.kind = "num" /\ base > 0 )
     => IF _METRICS[det.metric].key \in {"latency", "memory"}
          THEN /\ det.result = "regression" <=> up
               /\ det.result = "improvement" <=> down
               /\ det.result = "none" <=> (~up /\ ~down)
          ELSE /\ det.result = "regression" <=> down
               /\ det.result = "improvement" <=> up
               /\ det.result = "none" <=> (~up /\ ~down)

\* a metric whose change is exactly the positive threshold was checked
C11_Witness ==
  /\ det.metric > 0
  /\ det.threshold > 0
  /\ det.curr_entry.kind = "num" /\ det.base_entry.kind = "num"
  /\ det.base_entry.value > 0
  /\ ThresholdDen * det.curr_entry.value =
       (ThresholdDen + det.threshold) * det.base_entry.value
  /\ det.result = "none"

\* C12: the change type of the run is mixed iff a regression and an
\* improvement were reported, regression or improvement iff only that kind
\* was, and empty iff none was; then nothing is written to GITHUB_OUTPUT,
\* and what is written otherwise is the flag and the change type.
C12_RunLevelChangeType ==
  LET reg == det.warnings > 0
      imp == det.notices > 0
      type == IF reg /\ imp THEN "mixed"
              ELSE IF reg THEN "regression"
              ELSE IF imp THEN "improvement"
              ELSE ""
  IN det.pc = "done"
       => /\ det.change_type = type
          /\ (~reg /\ ~imp) => det.written = {}
          /\ det.written \in
               {{}, {<<"has_significant_change", "true">>,
                     <<"change_type", type>>}}

\* a run with a regression and an improvement has written its outputs
C12_Witness ==
  /\ det.pc = "done"
  /\ det.warnings > 0 /\ det.notices > 0
  /\ det.written = {<<"has_significant_change", "true">>,
                    <<"change_type", "mixed">>}

\* C18: a message is printed, a classification returned and a flag of the
\* run set only by the check of a metric of a benchmark that is in the
\* baseline, with a current and a baseline value greater than 0.
C18_OnlyPositivePairsClassified ==
  [][( \/ det'.warnings # det.warnings
       \/ det'.notices # det.notices
       \/ det'.has_any_regression # det.has_any_regression
       \/ det'.has_any_improvement # det.has_any_improvement
       \/ (det'.metric > det.metric /\ det'.result # "none") )
     => /\ det.pc = "metric"
        /\ det.in_baseline
        /\ det'.curr_entry.kind = "num" /\ det'.curr_entry.value > 0
        /\ det'.base_entry.kind = "num" /\ det'.base_entry.value > 0]_vars

\* a metric with a current value and no baseline value was checked in
\* the second benchmark, and nothing has been reported in the run
C18_Witness ==
  /\ det.name = 2
  /\ det.metric > 0
  /\ det.curr_entry.kind = "num" /\ det.curr_entry.value > 0
  /\ det.base_entry.kind = "absent"
  /\ det.result = "none"
  /\ det.warnings = 0 /\ det.notices = 0

\* ------------------------------------------ calculate_rolling_baseline.py
\* a baseline was written from a window of 2 or more snapshots
Averaged ==
  /\ agg.pc = "done"
  /\ Len(agg.results) >= 2
  /\ agg.baseline # <<>>

\* the snapshots of the window where the benchmark carries a number
Carrying(name, key) ==
  {i \in DOMAIN agg.results :
     /\ name \in DOMAIN agg.results[i].benchmarks
     /\ agg.results[i].benchmarks[name][key].kind = "num"}

RECURSIVE CarriedSum(_, _, _)
CarriedSum(I, name, key) ==
  IF I = {} THEN 0
  ELSE LET i == CHOOSE j \in I : TRUE
       IN agg.results[i].benchmarks[name][key].value
            + CarriedSum(I \ {i}, name, key)

\* the entry is the mean of the carried values to 2 decimal places
IsRoundedMean(entry, name, key) ==
  LET n == Cardinality(Carrying(name, key))
      sum == CarriedSum(Carrying(name, key), name, key)
  IN /\ entry.kind = "num"
     /\ entry.value % 2 = 0
     /\ entry.value * n - sum <= n
     /\ sum - entry.value * n <= n

\* the entry is the mean of the carried values
IsExactMean(entry, name, key) ==
  /\ entry.kind = "num"
  /\ entry.value * Cardinality(Carrying(name, key))
       = CarriedSum(Carrying(name, key), name, key)

\* C13: a baseline of 2 or more snapshots carries, for every benchmark,
\* each of latency, throughput and memory that a snapshot of the window
\* carries, with the mean of the carried values (to 2 decimal places).
C13_AllThreeMetricsAveraged ==
  Averaged =>
    \A name \in AllNames(agg.results) :
      \A key \in {"latency", "throughput", "memory"} :
        Carrying(name, key) # {}
          => /\ name \in DOMAIN agg.baseline[1].benchmarks
             /\ IsRoundedMean(agg.baseline[1].benchmarks[name][key],
                              name, key)

\* C14: with exactly one snapshot available the baseline written is that
\* snapshot, unchanged: every benchmark, metric and value as it was, and
\* the metadata without baseline_type and sample_count.
C14_SingleSnapshotVerbatim ==
  (agg.pc = "done" /\ agg.available = 1)
    => agg.baseline = <<agg.results[1]>>

\* the one snapshot had a value that round(x, 2) changes, and a memory
C14_Witness ==
  /\ agg.pc = "done"
  /\ agg.available = 1
  /\ "a" \in DOMAIN agg.results[1].benchmarks
  /\ agg.results[1].benchmarks["a"].latency = Num(25)
  /\ agg.results[1].benchmarks["a"].memory = Num(25)
  /\ agg.baseline = <<agg.results[1]>>

\* a latency or throughput of a selected snapshot is null or not a number
NonNumericSelected ==
  \E i \in DOMAIN agg.results :
    \E name \in DOMAIN agg.results[i].benchmarks :
      \E k \in DOMAIN AveragedKeys :
        agg.results[i].benchmarks[name][AveragedKeys[k]].kind
          \in {"null", "str"}

\* C16: a run that selected a snapshot with a non-numeric latency or
\* throughput value ends with a fatal error and writes no baseline.
C16_NonNumericIsFatal ==
  (agg.pc = "done" /\ NonNumericSelected)
    => /\ agg.baseline = <<>>
       /\ agg.exit # 0

\* C19 as stated: for a window of 2 or more, every benchmark of the window
\* is in the baseline, and its latency and throughput are exactly the mean
\* of the snapshots that carry the metric, so that a repeated v gives v.
C19_ExactMeanOfCarried ==
  Averaged =>
    \A name \in AllNames(agg.results) :
      /\ name \in DOMAIN agg.baseline[1].benchmarks
      /\ \A k \in DOMAIN AveragedKeys :
           Carrying(name, AveragedKeys[k]) # {}
             => IsExactMean(
                  agg.baseline[1].benchmarks[name][AveragedKeys[k]],
                  name, AveragedKeys[k])

\* C19: for a window of 2 or more, every benchmark of the window is in the
\* baseline, and its latency and throughput are the mean, to 2 decimal
\* places, of the snapshots that carry the metric: a snapshot without the
\* benchmark or the metric adds neither to the sum nor to the count.
C19_RoundedMeanOfCarried ==
  Averaged =>
    \A name \in AllNames(agg.results) :
      /\ name \in DOMAIN agg.baseline[1].benchmarks
      /\ \A k \in DOMAIN AveragedKeys :
           Carrying(name, AveragedKeys[k]) # {}
             => IsRoundedMean(
                  agg.baseline[1].benchmarks[name][AveragedKeys[k]],
                  name, AveragedKeys[k])

\* a baseline of 2 snapshots: one of them has no "b", and "a" has its
\* latency in one of them only
C19_Witness ==
  /\ Averaged
  /\ Len(agg.results) = 2
  /\ "b" \in DOMAIN agg.results[1].benchmarks
  /\ "b" \notin DOMAIN agg.results[2].benchmarks
  /\ "a" \in DOMAIN agg.results[1].benchmarks
  /\ "a" \in DOMAIN agg.results[2].benchmarks
  /\ agg.results[1].benchmarks["a"].latency = Absent
  /\ agg.results[2].benchmarks["a"].latency = Num(50)
  /\ agg.baseline[1].benchmarks["a"].latency = Num(50)

\* ------------------------------------------------ verify_test_vectors.py
\* C15: the verifier returns 0 iff every benchmark of the results has
\* test_vectors.verified true, and 1 otherwise: a missing test_vectors, a
\* missing or a false verified give 1, no benchmarks at all give 0.
C15_ReturnsZeroIffAllVerified ==
  tvr.pc = "done"
    => /\ tvr.exit \in {0, 1}
       /\ tvr.exit = 0
            <=> \A name \in DOMAIN tvr.data.benchmarks :
                  tvr.data.benchmarks[name] = "true"
       /\ (~tvr.data.has_benchmarks \/ tvr.data.benchmarks = <<>>)
            => tvr.exit = 0

\* results with a verified benchmark and one without test_vectors gave 1
C15_Witness ==
  /\ tvr.pc = "done"
  /\ tvr.exit = 1
  /\ \E a, b \in DOMAIN tvr.data.benchmarks :
       /\ tvr.data.benchmarks[a] = "true"
       /\ tvr.data.benchmarks[b] = "missing"
====
